---------------------------- MODULE Spec2Model ----------------------------
(***************************************************************************)
(* Inventario de Herramientas (src/app.py): a Streamlit page over a Google *)
(* spreadsheet.  The spreadsheet `sh` is a sequence of worksheets; every   *)
(* worksheet is a title, a header row and data rows of text cells.  One    *)
(* run of the script (fetch, recompute, widgets, button handler, reports)  *)
(* is one step of the page.                                                *)
(*                                                                         *)
(* Cells are text.  The conversions the code applies to them (strip,       *)
(* lower, upper, to_numeric(errors="coerce"), to_datetime(errors="coerce"))*)
(* are computed on the finite alphabet of cell texts used by the model.    *)
(***************************************************************************)
EXTENDS Integers, Sequences, FiniteSets, TLC

VARIABLES
    sh,           \* the spreadsheet: sequence of worksheets [title, cells]
    pc,           \* "init" before the first run; then the outcome of the last run
    df_master,    \* line 176: master frame of the last run
    df_mov,       \* line 177: ledger frame of the last run
    df_stock,     \* line 178: result of compute_stock in the last run
    sel,          \* line 191: the display string held by the selectbox, or NoSel
    sel_entry,    \* line 191: the entry of `lista` the user chose (its triple), or NoRow
    row_sel,      \* lines 194-197: [Categoria, Herramienta, Referencia] or NoRow
    form,         \* lines 208-218: st.session_state of the detail form
    stock_actual, \* line 222: <<n>> when st.info shows stock n, <<>> when no item is shown
    agg,          \* line 276: total StockActual per Categoria shown in the report
    dfm,          \* line 288: ledger frame fetched for the movement series
    last          \* what the last call of an operation did (arguments, outcome)

vars == <<sh, pc, df_master, df_mov, df_stock, sel, sel_entry, row_sel, form,
          stock_actual, agg, dfm, last>>

-----------------------------------------------------------------------------
(* Bounds of the model *)

\* rows of the PLADUR sheet and of the ledger in the initial stores of SpecStock
MaxMaster == 2
MaxMov == 2
\* data rows of the category sheet update_master_row is called on in SpecUpdate
MaxRows == 2
\* the page stops saving movements once the ledger grid has this many rows
MaxLedger == 3
\* largest quantity typed in the movement form (number_input, min_value=1)
MaxCantidad == 2

-----------------------------------------------------------------------------
(* Generic helpers *)

Range(s) == {s[i] : i \in 1..Len(s)}

SeqsUpTo(S, n) == UNION {[1..k -> S] : k \in 0..n}

RECURSIVE SumSeq(_)
SumSeq(s) == IF s = <<>> THEN 0 ELSE Head(s) + SumSeq(Tail(s))

RECURSIVE Concat(_)
Concat(ss) == IF ss = <<>> THEN <<>> ELSE Head(ss) \o Concat(Tail(ss))

\* no selection (the selectbox holds None), no selected row, nothing shown
NoSel == <<>>
NoRow == [none |-> TRUE]

-----------------------------------------------------------------------------
(* Text conversions, computed on the model's alphabet of cell texts *)

\* str.strip(): the padded texts of the alphabet and what is left of them
Padded == (" T1" :> "T1") @@ (" Salida " :> "Salida") @@ ("Pladur " :> "Pladur")

Strip(s) == IF s \in DOMAIN Padded THEN Padded[s] ELSE s

\* str.lower() / str.upper(): the texts of the alphabet that hold a letter of
\* the other case
Lowered == ("Entrada" :> "entrada") @@ ("Salida" :> "salida")
           @@ (" Salida " :> " salida ")

Lower(s) == IF s \in DOMAIN Lowered THEN Lowered[s] ELSE s

Uppered == ("Pladur" :> "PLADUR") @@ ("Pladur " :> "PLADUR ")

Upper(s) == IF s \in DOMAIN Uppered THEN Uppered[s] ELSE s

\* pd.to_numeric(errors="coerce").fillna(0).astype(int): the numeric texts of the
\* alphabet; every other text (blank, words) is NaN and becomes 0
Numeric == ("0" :> 0) @@ ("1" :> 1) @@ ("2" :> 2) @@ ("3" :> 3) @@ ("5" :> 5)
           @@ ("7" :> 7) @@ ("-3" :> (0 - 3)) @@ ("1.5" :> 1)

ToInt(s) == IF s \in DOMAIN Numeric THEN Numeric[s] ELSE 0

\* pd.to_datetime(errors="coerce").dt.date: ISO dates stay, anything else is NaT
ValidDates == {"2024-05-01", "2024-05-02"}

ToDate(s) == IF s \in ValidDates THEN s ELSE "NaT"

\* str(int(n)) as the sheet stores a quantity typed in the form
IntText(n) == CHOOSE s \in {"1", "2", "3"} : Numeric[s] = n

-----------------------------------------------------------------------------
(* Program constants *)

MOV_SHEET == "MOVIMIENTOS"

MASTER_COLS == <<"Herramienta", "Marca", "Referencia", "Asignado", "Tipo",
                 "CantidadInicial">>

OPTIONAL_COLS == <<"Fecha">>

\* ensure_movements_sheet_exists: the header of a ledger the program creates
MOV_HEADERS == <<"Timestamp", "Fecha", "Categoria", "Herramienta", "Referencia",
                 "Marca", "Asignado", "Tipo", "Movimiento", "Cantidad",
                 "Observaciones">>

-----------------------------------------------------------------------------
(* The spreadsheet API used by the program (gspread).  A worksheet is      *)
(* [title, cells]: cells is the grid of text cells, row 1 the header; a     *)
(* blank worksheet has cells = <<>>.  The grid is rectangular.              *)

\* sh.worksheet(title): index of the first worksheet with exactly this title,
\* 0 when there is none (WorksheetNotFound)
worksheet(book, title) ==
    IF \E i \in 1..Len(book) : book[i].title = title
    THEN CHOOSE i \in 1..Len(book) :
            /\ book[i].title = title
            /\ \A j \in 1..(i - 1) : book[j].title # title
    ELSE 0

\* ws.get_all_values()
get_all_values(ws) == ws.cells

\* ws.row_values(1)
row_values_1(ws) == IF ws.cells = <<>> THEN <<>> ELSE ws.cells[1]

\* position (1-based) of the last header cell whose stripped text is c; 0 if none.
\* Both readers strip the header texts (lines 51, 81, 116); a dict keeps the
\* last of two equal keys.
ColPos(header, c) ==
    IF \E i \in 1..Len(header) : Strip(header[i]) = c
    THEN CHOOSE i \in 1..Len(header) :
            /\ Strip(header[i]) = c
            /\ \A j \in (i + 1)..Len(header) : Strip(header[j]) # c
    ELSE 0

\* ws.get_all_records() followed by the strip of the column names: one record
\* per data row, keyed by the stripped header texts
get_all_records(ws) ==
    IF Len(ws.cells) < 2 THEN <<>>
    ELSE LET header == ws.cells[1]
             names == {Strip(header[i]) : i \in 1..Len(header)}
         IN  [k \in 1..(Len(ws.cells) - 1) |->
                [c \in names |-> ws.cells[k + 1][ColPos(header, c)]]]

\* ws.update_cell(r, c, v) on a grid with at least r rows; the grid grows to
\* column c with blank cells
update_cell(ws, r, c, v) ==
    LET width == IF ws.cells = <<>> THEN 0 ELSE Len(ws.cells[1])
        w2 == IF c > width THEN c ELSE width
        Wide(row) == [j \in 1..w2 |-> IF j <= Len(row) THEN row[j] ELSE ""]
    IN  [ws EXCEPT !.cells =
            [i \in 1..Len(ws.cells) |->
                IF i = r THEN [Wide(ws.cells[i]) EXCEPT ![c] = v]
                ELSE Wide(ws.cells[i])]]

\* ws.append_row(values): a new last row.  A row with no text in any cell
\* leaves the grid as it is (the sheet holds no trace of it).
append_row(ws, values) ==
    IF \A j \in 1..Len(values) : values[j] = "" THEN ws
    ELSE [ws EXCEPT !.cells = Append(ws.cells, values)]

\* a cell of a record, "" (what fillna("") leaves of a synthesized column) when
\* the column is not there
Cell(rec, c) == IF c \in DOMAIN rec THEN rec[c] ELSE ""

-----------------------------------------------------------------------------
(* Reading the store *)

RECURSIVE get_all_category_sheets(_)
get_all_category_sheets(book) ==
    IF book = <<>> THEN <<>>
    ELSE (IF Upper(Strip(Head(book).title)) # MOV_SHEET THEN <<Head(book)>> ELSE <<>>)
         \o get_all_category_sheets(Tail(book))

df_from_ws(ws) ==
    LET recs == get_all_records(ws)
    IN  [k \in 1..Len(recs) |->
            [Herramienta     |-> Strip(Cell(recs[k], "Herramienta")),
             Marca           |-> Strip(Cell(recs[k], "Marca")),
             Referencia      |-> Strip(Cell(recs[k], "Referencia")),
             Asignado        |-> Strip(Cell(recs[k], "Asignado")),
             Tipo            |-> Strip(Cell(recs[k], "Tipo")),
             CantidadInicial |-> ToInt(Cell(recs[k], "CantidadInicial")),
             Fecha           |-> Strip(Cell(recs[k], "Fecha")),
             Categoria       |-> Upper(Strip(ws.title))]]

get_master_df(book) ==
    LET wss == get_all_category_sheets(book)
    IN  Concat([k \in 1..Len(wss) |-> df_from_ws(wss[k])])

\* an empty DataFrame(): no columns, no rows
EmptyDF == [cols |-> {}, rows |-> <<>>]

\* one ledger record after the coercions of lines 82-92
MovRecord(rec) ==
    [c \in DOMAIN rec |->
        IF c = "Fecha" THEN ToDate(rec[c])
        ELSE IF c = "Cantidad" THEN ToInt(rec[c])
        ELSE IF c = "Movimiento" THEN Strip(Lower(rec[c]))
        ELSE rec[c]]

get_movements_df(book) ==
    LET w == worksheet(book, MOV_SHEET)
    IN  IF w = 0 THEN EmptyDF
        ELSE LET recs == get_all_records(book[w])
             IN  IF recs = <<>> THEN EmptyDF
                 ELSE [cols |-> DOMAIN recs[1],
                       rows |-> [k \in 1..Len(recs) |-> MovRecord(recs[k])]]

-----------------------------------------------------------------------------
(* compute_stock, lines 142-163 *)

key_cols == <<"Categoria", "Herramienta", "Referencia">>

\* the join key of a row; line 155 gives a ledger without a key column "" there
\* a join on Herramienta and Referencia alone
KeyOf_no_category(rec) == <<"", Cell(rec, key_cols[2]), Cell(rec, key_cols[3])>>

KeyOf(rec) == [i \in 1..3 |-> Cell(rec, key_cols[i])]

\* line 150: map({"entrada": 1, "salida": -1}).fillna(0)
\* the two directions exchanged
signo_swapped(m) == IF m = "entrada" THEN 0 - 1 ELSE IF m = "salida" THEN 1 ELSE 0

signo(m) == IF m = "entrada" THEN 1 ELSE IF m = "salida" THEN 0 - 1 ELSE 0

\* line 151
ajuste(rec) == signo(rec["Movimiento"]) * rec["Cantidad"]

\* line 156: groupby(key_cols)["ajuste"].sum(): one sum per key of the ledger
movsum(dv) ==
    LET keys == {KeyOf(dv.rows[k]) : k \in 1..Len(dv.rows)}
    IN  [key \in keys |->
            SumSeq([k \in 1..Len(dv.rows) |->
                      IF KeyOf(dv.rows[k]) = key THEN ajuste(dv.rows[k]) ELSE 0])]

\* an inner join: master rows without a ledger key are dropped
merge_inner(dm, sums) ==
    LET kept == SelectSeq(dm, LAMBDA m : KeyOf(m) \in DOMAIN sums)
    IN  [i \in 1..Len(kept) |->
            kept[i] @@ [ajuste |-> sums[KeyOf(kept[i])],
                        StockActual |-> kept[i].CantidadInicial + sums[KeyOf(kept[i])]]]

\* lines 160-162: left join of master with the sums, one output row per master row
merge_left(dm, sums) ==
    [i \in 1..Len(dm) |->
        LET adj == IF KeyOf(dm[i]) \in DOMAIN sums THEN sums[KeyOf(dm[i])] ELSE 0
        IN  dm[i] @@ [ajuste |-> adj, StockActual |-> dm[i].CantidadInicial + adj]]

compute_stock(dm, dv) ==
    IF dm = <<>> THEN [ok |-> TRUE, err |-> "", rows |-> <<>>]
    ELSE IF dv.rows = <<>>
    THEN [ok |-> TRUE, err |-> "",
          rows |-> [i \in 1..Len(dm) |->
                      dm[i] @@ [StockActual |-> dm[i].CantidadInicial]]]
    ELSE IF "Movimiento" \notin dv.cols
    THEN [ok |-> FALSE, err |-> "KeyError: Movimiento", rows |-> <<>>]
    ELSE IF "Cantidad" \notin dv.cols
    THEN [ok |-> FALSE, err |-> "KeyError: Cantidad", rows |-> <<>>]
    ELSE [ok |-> TRUE, err |-> "", rows |-> merge_left(dm, movsum(dv))]

-----------------------------------------------------------------------------
(* Writing the store *)

\* lines 95-102
ensure_movements_sheet_exists(book) ==
    IF worksheet(book, MOV_SHEET) # 0 THEN book
    ELSE Append(book, [title |-> MOV_SHEET, cells |-> <<MOV_HEADERS>>])

\* lines 104-109; row_dict is the dict `fila`
append_movement(book, row_dict) ==
    LET book1 == ensure_movements_sheet_exists(book)
        w == worksheet(book1, MOV_SHEET)
        headers == row_values_1(book1[w])
        values == [j \in 1..Len(headers) |->
                     IF headers[j] \in DOMAIN row_dict THEN row_dict[headers[j]]
                     ELSE ""]
    IN  [book1 EXCEPT ![w] = append_row(@, values)]

\* lines 118-125: every update column missing from the header is written into
\* a new header cell, in the order of `updates`, before any row is looked for
RECURSIVE add_update_columns(_, _)
add_update_columns(ws, ucs) ==
    IF ucs = <<>> THEN ws
    ELSE IF ColPos(ws.cells[1], Head(ucs)) # 0
         THEN add_update_columns(ws, Tail(ucs))
         ELSE add_update_columns(
                 update_cell(ws, 1, Len(ws.cells[1]) + 1, Head(ucs)), Tail(ucs))

\* the loop without its break: the last matching row wins
target_row_last(ws, key_h, key_r) ==
    LET header == ws.cells[1]
        Val(i, c) == IF ColPos(header, c) # 0 THEN ws.cells[i][ColPos(header, c)]
                     ELSE ""
        Match(i) == /\ Strip(Val(i, "Herramienta")) = Strip(key_h)
                    /\ Strip(Val(i, "Referencia")) = Strip(key_r)
    IN  IF \E i \in 2..Len(ws.cells) : Match(i)
        THEN CHOOSE i \in 2..Len(ws.cells) :
                Match(i) /\ \A j \in (i + 1)..Len(ws.cells) : ~Match(j)
        ELSE 0

\* lines 126-136: the sheet row (2..) of the first data row whose stripped
\* Herramienta and Referencia equal the stripped key; 0 when there is none
target_row(ws, key_h, key_r) ==
    LET header == ws.cells[1]
        Val(i, c) == IF ColPos(header, c) # 0 THEN ws.cells[i][ColPos(header, c)]
                     ELSE ""
        Match(i) == /\ Strip(Val(i, "Herramienta")) = Strip(key_h)
                    /\ Strip(Val(i, "Referencia")) = Strip(key_r)
    IN  IF \E i \in 2..Len(ws.cells) : Match(i)
        THEN CHOOSE i \in 2..Len(ws.cells) :
                Match(i) /\ \A j \in 2..(i - 1) : ~Match(j)
        ELSE 0

\* lines 139-140: one update_cell per entry of `updates`
RECURSIVE write_updates(_, _, _)
write_updates(ws, r, updates) ==
    IF updates = <<>> THEN ws
    ELSE write_updates(
            update_cell(ws, r, ColPos(ws.cells[1], Head(updates)[1]), Head(updates)[2]),
            r, Tail(updates))

\* lines 111-140; updates is the dict as a sequence of <<column, value>>, in
\* insertion order.  The result is the outcome and the spreadsheet it leaves.
update_master_row(book, category_title, key_h, key_r, updates) ==
    LET w == worksheet(book, category_title)
    IN  IF w = 0
        THEN [ok |-> FALSE, err |-> "WorksheetNotFound", book |-> book]
        ELSE IF get_all_values(book[w]) = <<>>
        THEN [ok |-> FALSE, err |-> "Hoja vacia o sin cabecera", book |-> book]
        ELSE LET ws1 == add_update_columns(
                            book[w], [k \in 1..Len(updates) |-> updates[k][1]])
                 r == target_row(ws1, key_h, key_r)
             IN  IF r = 0
                 THEN [ok |-> FALSE, err |-> "No se encontro la fila",
                       book |-> [book EXCEPT ![w] = ws1]]
                 ELSE [ok |-> TRUE, err |-> "",
                       book |-> [book EXCEPT ![w] = write_updates(ws1, r, updates)]]

-----------------------------------------------------------------------------
(* The page, lines 176-289 *)

\* df.drop_duplicates(): the first row of every distinct triple, in order
RECURSIVE drop_duplicates(_)
drop_duplicates(s) ==
    IF s = <<>> THEN <<>>
    ELSE LET front == SubSeq(s, 1, Len(s) - 1)
             x == s[Len(s)]
         IN  IF x \in Range(front) THEN drop_duplicates(front)
             ELSE Append(drop_duplicates(front), x)

\* line 188: Herramienta + " — " + Referencia, a blank reference shown as
\* "(sin ref.)"; the two parts of the text are kept as a pair
Display(t) == <<t.Herramienta, IF t.Referencia = "" THEN "(sin ref.)" ELSE t.Referencia>>

\* the alphabetical order of the tool names of the model
NameOrder == <<"", "Llave", "Taladro">>

\* line 189: sort_values("Herramienta"), rows of one name in their given order
sort_values(s) ==
    LET Named(r) == SelectSeq(s, LAMBDA e : e.Herramienta = NameOrder[r])
    IN  Concat([r \in 1..Len(NameOrder) |-> Named(r)])

\* lines 184-190
lista(dm) ==
    LET triples == [i \in 1..Len(dm) |->
                      [Categoria |-> dm[i].Categoria,
                       Herramienta |-> dm[i].Herramienta,
                       Referencia |-> dm[i].Referencia]]
        uniq == drop_duplicates(triples)
    IN  sort_values([i \in 1..Len(uniq) |-> uniq[i] @@ [Display |-> Display(uniq[i])]])

\* lines 194-197: the first entry of lista with the chosen display text
RowSel(li, s) ==
    LET i == CHOOSE i \in 1..Len(li) :
                li[i].Display = s /\ \A j \in 1..(i - 1) : li[j].Display # s
    IN  [Categoria |-> Upper(Strip(li[i].Categoria)),
         Herramienta |-> Strip(li[i].Herramienta),
         Referencia |-> Strip(li[i].Referencia)]

SameItem(rec, rs) ==
    /\ rec.Categoria = rs.Categoria
    /\ rec.Herramienta = rs.Herramienta
    /\ rec.Referencia = rs.Referencia

\* the first row of a frame that is the selected item (a row_sel taken from
\* lista has one)
FirstItem(rows, rs) ==
    rows[CHOOSE i \in 1..Len(rows) :
            SameItem(rows[i], rs) /\ \A j \in 1..(i - 1) : ~SameItem(rows[j], rs)]

\* line 198
Ficha(dm, rs) == FirstItem(dm, rs)

\* lines 208-218: the values the detail widgets start with
FormDefaults(ficha) ==
    [marca_val |-> ficha.Marca, ref_val |-> ficha.Referencia,
     asignado_val |-> ficha.Asignado, tipo_val |-> ficha.Tipo,
     fecha_val |-> ficha.Fecha]

NoForm == [marca_val |-> "", ref_val |-> "", asignado_val |-> "", tipo_val |-> "",
           fecha_val |-> ""]

\* lines 220-221
StockActualOf(ds, dm, rs) ==
    IF \E i \in 1..Len(ds.rows) : SameItem(ds.rows[i], rs)
    THEN FirstItem(ds.rows, rs).StockActual
    ELSE Ficha(dm, rs).CantidadInicial

\* line 276: groupby("Categoria")["StockActual"].sum()
Agg(ds) ==
    [c \in {ds.rows[i].Categoria : i \in 1..Len(ds.rows)} |->
        SumSeq([i \in 1..Len(ds.rows) |->
                  IF ds.rows[i].Categoria = c THEN ds.rows[i].StockActual ELSE 0])]

\* lines 235-247; the clock and the date widget are fixed texts
Fila(rs, f, tipo_mov, cantidad) ==
    [Timestamp |-> "2024-05-01T10:00:00", Fecha |-> "2024-05-01",
     Categoria |-> rs.Categoria, Herramienta |-> rs.Herramienta,
     Referencia |-> f.ref_val, Marca |-> f.marca_val,
     Asignado |-> f.asignado_val, Tipo |-> f.tipo_val,
     Movimiento |-> Lower(tipo_mov), Cantidad |-> IntText(cantidad),
     Observaciones |-> ""]

\* lines 259-265
Updates(f) ==
    <<<<"Marca", f.marca_val>>, <<"Referencia", f.ref_val>>,
      <<"Asignado", f.asignado_val>>, <<"Tipo", f.tipo_val>>,
      <<"Fecha", f.fecha_val>>>>

\* the detail widgets keep what the user typed; a widget whose starting value
\* differs from the one of the previous run starts again from it, and so does
\* the whole form when another item is chosen
FormOf(click, defaults) ==
    IF click.kind = "select" \/ row_sel = NoRow THEN defaults
    ELSE LET prev == FormDefaults(Ficha(df_master, row_sel))
             kept == [k \in DOMAIN defaults |->
                        IF defaults[k] # prev[k] THEN defaults[k] ELSE form[k]]
         IN  IF click.kind = "type" THEN [kept EXCEPT ![click.field] = click.text]
             ELSE kept

\* what the user types in the model
TypedTexts == {<<"ref_val", "T2">>}

\* rows of the ledger grid, header included; 0 without a ledger
LedgerRows(book) ==
    IF worksheet(book, MOV_SHEET) = 0 THEN 0
    ELSE Len(book[worksheet(book, MOV_SHEET)].cells)

NoCall == [op |-> "none", ok |-> TRUE, err |-> ""]

\* One run of the script for the interaction `click`:
\*   [kind |-> "refresh"], [kind |-> "select", idx], [kind |-> "type", field, text],
\*   [kind |-> "save", tipo_mov, cantidad], [kind |-> "edit"].
\* Lines 176-178 fetch and recompute; an exception of compute_stock ends the
\* run there.  Then the selectbox and the detail form (Widgets), the handler of
\* the button that was clicked (Handler), and the reports (df_stock of line 178,
\* the ledger fetched again at line 288).
Handler(click, rs, f) ==
    IF click.kind = "save"
    THEN /\ sh' = append_movement(sh, Fila(rs, f, click.tipo_mov, click.cantidad))
         /\ last' = [op |-> "save", ok |-> TRUE, err |-> "",
                     tipo_mov |-> click.tipo_mov, cantidad |-> click.cantidad]
    ELSE IF click.kind = "edit"
    THEN \E r \in {update_master_row(sh, rs.Categoria, rs.Herramienta,
                                     rs.Referencia, Updates(f))} :
            /\ sh' = r.book
            /\ last' = [op |-> "edit", ok |-> r.ok, err |-> r.err]
    ELSE /\ sh' = sh /\ last' = NoCall

Widgets(click, dm, ds, li) ==
    LET options == {li[i].Display : i \in 1..Len(li)}
        chosen == click.kind = "select"
        s1 == IF chosen THEN li[click.idx].Display
              ELSE IF sel \in options THEN sel ELSE NoSel
        e1 == IF chosen THEN [Categoria |-> li[click.idx].Categoria,
                              Herramienta |-> li[click.idx].Herramienta,
                              Referencia |-> li[click.idx].Referencia]
              ELSE IF sel \in options THEN sel_entry ELSE NoRow
    IN  /\ sel' = s1
        /\ sel_entry' = e1
        /\ IF s1 = NoSel
           THEN /\ row_sel' = NoRow /\ form' = NoForm /\ stock_actual' = <<>>
                /\ sh' = sh /\ last' = NoCall
           ELSE \E rs \in {RowSel(li, s1)} :
                \E f \in {FormOf(click, FormDefaults(Ficha(dm, rs)))} :
                    /\ row_sel' = rs
                    /\ form' = f
                    /\ stock_actual' = <<StockActualOf(ds, dm, rs)>>
                    /\ Handler(click, rs, f)

Run(click) ==
    \E dm \in {get_master_df(sh)}, dv \in {get_movements_df(sh)} :
    \E ds \in {compute_stock(dm, dv)} :
        /\ df_master' = dm
        /\ df_mov' = dv
        /\ df_stock' = ds
        /\ IF ~ds.ok
           THEN /\ pc' = "crash"
                /\ sel' = NoSel /\ sel_entry' = NoRow /\ row_sel' = NoRow
                /\ form' = NoForm /\ stock_actual' = <<>>
                /\ agg' = <<>> /\ last' = NoCall
                /\ sh' = sh
                /\ dfm' = EmptyDF
           ELSE /\ pc' = "ok"
                /\ agg' = Agg(ds)
                /\ \E li \in {lista(dm)} : Widgets(click, dm, ds, li)
                /\ dfm' = get_movements_df(sh')

-----------------------------------------------------------------------------
(* Initial stores *)

MasterHeader == <<"Herramienta", "Marca", "Referencia", "Asignado", "Tipo",
                  "CantidadInicial", "Fecha">>

\* a category sheet without the optional Fecha column
ShortHeader == <<"Herramienta", "Marca", "Referencia", "Asignado", "Tipo",
                 "CantidadInicial">>

\* a data row of a category sheet under `header`
MRow(header, h, m, r, q) ==
    LET rec == [Herramienta |-> h, Marca |-> m, Referencia |-> r, Asignado |-> "",
                Tipo |-> "", CantidadInicial |-> q, Fecha |-> ""]
    IN  [j \in 1..Len(header) |-> rec[header[j]]]

CatSheet(title, header, rows) == [title |-> title, cells |-> <<header>> \o rows]

\* a data row of the ledger under `header`
LRow(header, cat, h, r, mov, q) ==
    LET rec == [Timestamp |-> "2024-05-01T09:00:00", Fecha |-> "2024-05-01",
                Categoria |-> cat, Herramienta |-> h, Referencia |-> r,
                Marca |-> "", Asignado |-> "", Tipo |-> "", Movimiento |-> mov,
                Cantidad |-> q, Observaciones |-> ""]
    IN  [j \in 1..Len(header) |-> rec[header[j]]]

Without(header, c) == SelectSeq(header, LAMBDA x : x # c)

\* the headers a ledger sheet has in the model: the one the program writes,
\* and that one with a column removed by hand
LedgerHeaders ==
    {MOV_HEADERS, Without(MOV_HEADERS, "Movimiento"),
     Without(MOV_HEADERS, "Cantidad"), Without(MOV_HEADERS, "Referencia")}

\* data rows typed into a ledger sheet by hand or saved earlier
LedgerRowsOf(header) ==
    {LRow(header, "PLADUR", "Taladro", "T1", "Entrada", "2"),
     LRow(header, "PLADUR", "Taladro", "T1", "salida", "1"),
     LRow(header, "PLADUR", "Taladro", "T1", "entrada", "-3"),
     LRow(header, "VARIOS", "Taladro", "T1", "entrada", "1"),
     LRow(header, "PLADUR", "Taladro", "", "ajuste", "5"),
     LRow(header, "PLADUR", "Llave", "T9", " Salida ", "abc")}

PladurRows ==
    {MRow(MasterHeader, "Taladro", "Bosch", "T1", "5"),
     MRow(MasterHeader, "Taladro", "", " T1", "3"),
     MRow(MasterHeader, "Taladro", "", "", "")}

VariosSheet == CatSheet("VARIOS", ShortHeader, <<MRow(ShortHeader, "Taladro", "", "T1", "7")>>)

\* the stores compute_stock is checked on: a PLADUR sheet of up to MaxMaster
\* rows, with or without a VARIOS sheet, and no ledger, a blank one, or one
\* of up to MaxMov rows under each header
StockStores ==
    LET masters == {<<CatSheet("PLADUR", MasterHeader, rows)>> \o tail :
                       rows \in SeqsUpTo(PladurRows, MaxMaster),
                       tail \in {<<>>, <<VariosSheet>>}}
        ledgers == {<<>>, <<[title |-> MOV_SHEET, cells |-> <<>>]>>}
                   \cup UNION {{<<[title |-> MOV_SHEET, cells |-> <<header>> \o rows]>> :
                                  rows \in SeqsUpTo(LedgerRowsOf(header), MaxMov)} :
                               header \in LedgerHeaders}
    IN  {m \o l : m \in masters, l \in ledgers}

\* the stores the page starts on
TaladroRow == MRow(MasterHeader, "Taladro", "Bosch", " T1", "5")

LlaveRow == MRow(MasterHeader, "Llave", "", "", "2")

ShortLedger == Without(MOV_HEADERS, "Movimiento")

PageStores ==
    {\* two categories with an item of the same name and reference, no ledger yet
     <<CatSheet("PLADUR", MasterHeader, <<TaladroRow>>), VariosSheet>>,
     \* a ledger that holds a movement
     <<VariosSheet,
       [title |-> MOV_SHEET,
        cells |-> <<MOV_HEADERS, LRow(MOV_HEADERS, "VARIOS", "Taladro", "T1", "salida", "1")>>]>>,
     \* a ledger sheet made by hand and still blank
     <<CatSheet("PLADUR", MasterHeader, <<TaladroRow, LlaveRow>>),
       [title |-> MOV_SHEET, cells |-> <<>>]>>,
     \* a ledger without its Movimiento column
     <<VariosSheet,
       [title |-> MOV_SHEET,
        cells |-> <<ShortLedger, LRow(ShortLedger, "VARIOS", "Taladro", "T1", "", "1")>>]>>,
     \* a category sheet whose title is not in upper case
     <<CatSheet("Pladur ", MasterHeader, <<LlaveRow>>)>>}

\* nothing has run yet
Fresh ==
    /\ pc = "init"
    /\ df_master = <<>> /\ df_mov = EmptyDF
    /\ df_stock = [ok |-> TRUE, err |-> "", rows |-> <<>>]
    /\ sel = NoSel /\ sel_entry = NoRow /\ row_sel = NoRow
    /\ form = NoForm /\ stock_actual = <<>>
    /\ agg = <<>> /\ dfm = EmptyDF /\ last = NoCall

Init == sh \in PageStores /\ Fresh

-----------------------------------------------------------------------------
(* The user's interactions; each one reruns the script *)

\* the first load, the sidebar button (line 167) or a reload of the page
Refresh == Run([kind |-> "refresh"])

\* line 191: the user picks entry idx of the selectbox
SelectItem ==
    /\ pc = "ok"
    /\ \E idx \in 1..Len(lista(get_master_df(sh))) : Run([kind |-> "select", idx |-> idx])

\* line 210: the user types into Referencia of the detail form
TypeField ==
    /\ pc = "ok" /\ sel # NoSel
    /\ \E ft \in TypedTexts : Run([kind |-> "type", field |-> ft[1], text |-> ft[2]])

\* line 234
SaveMovement ==
    /\ pc = "ok" /\ sel # NoSel
    /\ LedgerRows(sh) < MaxLedger
    /\ \E t \in {"Entrada", "Salida"}, q \in 1..MaxCantidad :
          Run([kind |-> "save", tipo_mov |-> t, cantidad |-> q])

\* line 257
EditMaster ==
    /\ pc = "ok" /\ sel # NoSel
    /\ Run([kind |-> "edit"])

Next == Refresh \/ SelectItem \/ TypeField \/ SaveMovement \/ EditMaster

Spec == Init /\ [][Next]_vars

-----------------------------------------------------------------------------
(* compute_stock on every store of StockStores: the first run of the script *)

InitStock == sh \in StockStores /\ Fresh

FirstRun == pc = "init" /\ Run([kind |-> "refresh"])

SpecStock == InitStock /\ [][FirstRun]_vars

-----------------------------------------------------------------------------
(* Claims about compute_stock, checked under SpecStock.  df_master and df_mov *)
(* are the frames as read from the store, df_stock what compute_stock made   *)
(* of them; pc = "ok" says compute_stock returned, pc = "crash" that it      *)
(* raised.                                                                   *)

\* the (Categoria, Herramienta, Referencia) of a row of a frame; a column the
\* frame does not have reads as ""
Triple(rec) ==
    <<Cell(rec, "Categoria"), Cell(rec, "Herramienta"), Cell(rec, "Referencia")>>

\* Quantity * (+1 for 'entrada', -1 for 'salida', 0 for anything else)
Quantity(mov) == IF "Cantidad" \in DOMAIN mov THEN mov.Cantidad ELSE 0

Signed(mov) ==
    IF Cell(mov, "Movimiento") = "entrada" THEN Quantity(mov)
    ELSE IF Cell(mov, "Movimiento") = "salida" THEN 0 - Quantity(mov)
    ELSE 0

\* the sum of the signed quantities of the ledger rows with the triple of m
NetOf(m) ==
    SumSeq([j \in 1..Len(df_mov.rows) |->
              IF Triple(df_mov.rows[j]) = Triple(m) THEN Signed(df_mov.rows[j]) ELSE 0])

\* C1: whenever compute_stock returns, every master row gets CurrentStock =
\* InitialQuantity + the sum of Quantity * (+1 entrada, -1 salida, 0 otherwise)
\* over the ledger rows with its triple; so a row without matching ledger rows
\* keeps InitialQuantity and a ledger row matching no master row changes nothing.
C1_StockIsInitialPlusNet ==
    pc = "ok" =>
        \A i \in 1..Len(df_master) :
            /\ i <= Len(df_stock.rows)
            /\ df_stock.rows[i].StockActual
                 = df_master[i].CantidadInicial + NetOf(df_master[i])

\* the join ran: one master row's stock moved by its ledger rows, another master
\* row has none and kept its InitialQuantity, and one ledger row matches no
\* master row
C1_Witness ==
    /\ pc = "ok"
    /\ \E i, k \in 1..Len(df_master) :
          /\ df_stock.rows[i].StockActual # df_master[i].CantidadInicial
          /\ NetOf(df_master[k]) = 0
          /\ df_stock.rows[k].StockActual = df_master[k].CantidadInicial
    /\ \E j \in 1..Len(df_mov.rows) :
          \A i \in 1..Len(df_master) : Triple(df_mov.rows[j]) # Triple(df_master[i])

\* C2: whenever compute_stock returns, the output has one row per master row,
\* in master order, each carrying the master row's columns unchanged.
C2_OneRowPerMasterRow ==
    pc = "ok" =>
        /\ Len(df_stock.rows) = Len(df_master)
        /\ \A i \in 1..Len(df_master) :
              \A c \in DOMAIN df_master[i] : df_stock.rows[i][c] = df_master[i][c]

\* the left join ran on a master with two rows of one triple and a ledger with
\* two rows of that triple
C2_Witness ==
    /\ pc = "ok"
    /\ Len(df_master) >= 2
    /\ Triple(df_master[1]) = Triple(df_master[2])
    /\ Len(df_mov.rows) >= 2
    /\ \A j \in 1..2 : Triple(df_mov.rows[j]) = Triple(df_master[1])

AllEntrada == \A j \in 1..Len(df_mov.rows) : Cell(df_mov.rows[j], "Movimiento") = "entrada"

\* C3 as claimed: with every Direction 'entrada', CurrentStock >= InitialQuantity
\* for every master row, whatever integer the Quantity cells coerce to.
C3_Original ==
    (pc = "ok" /\ AllEntrada) =>
        \A i \in 1..Len(df_stock.rows) :
            df_stock.rows[i].StockActual >= df_master[i].CantidadInicial

\* C3 amended: with every Direction 'entrada' and every Quantity >= 0 after
\* coercion, CurrentStock >= InitialQuantity for every master row.
C3_EntradaNonNegative ==
    (/\ pc = "ok"
     /\ AllEntrada
     /\ \A j \in 1..Len(df_mov.rows) : Quantity(df_mov.rows[j]) >= 0) =>
        \A i \in 1..Len(df_stock.rows) :
            df_stock.rows[i].StockActual >= df_master[i].CantidadInicial

C3_Witness ==
    /\ pc = "ok"
    /\ df_mov.rows # <<>>
    /\ AllEntrada
    /\ \A j \in 1..Len(df_mov.rows) : Quantity(df_mov.rows[j]) >= 0
    /\ \E i \in 1..Len(df_stock.rows) :
          df_stock.rows[i].StockActual > df_master[i].CantidadInicial

\* C8: compute_stock never raises, whatever frames get_master_df and
\* get_movements_df return.
C8_NeverRaises == pc # "crash"

-----------------------------------------------------------------------------
(* update_master_row called on every sheet of UpdateSheets with every key and *)
(* every updates dict of UpdateCalls                                          *)

UpdateRowsOf(header) ==
    {MRow(header, "Taladro", "Bosch", "T1", "5"),
     MRow(header, "Taladro", "", " T1", "3"),
     MRow(header, "Llave", "", "", "2")}

UpdateSheets ==
    {[title |-> "PLADUR", cells |-> <<>>]}
    \cup UNION {{CatSheet("PLADUR", header, rows) :
                   rows \in SeqsUpTo(UpdateRowsOf(header), MaxRows)} :
                header \in {MasterHeader, ShortHeader}}

\* what the detail form can hold when the button of line 257 is clicked
UpdateForms ==
    [marca_val : {"Bosch", "Makita"}, ref_val : {"T1", "T2"}, asignado_val : {""},
     tipo_val : {"Taller"}, fecha_val : {"", "2024-05-02"}]

UpdateCalls ==
    [title : {"PLADUR", "VARIOS"},
     key_h : {"Taladro", "Llave"},
     key_r : {"T1", "", "T9"},
     updates : {Updates(f) : f \in UpdateForms}
               \cup {<<>>, <<<<"Marca", "Makita">>>>, <<<<"Fecha", "2024-05-02">>>>}]

InitUpdate ==
    /\ \E ws \in UpdateSheets : sh = <<ws>>
    /\ Fresh

\* one call; `last` keeps its arguments, its outcome and the spreadsheet before
CallUpdate ==
    /\ pc = "init"
    /\ \E a \in UpdateCalls :
       \E r \in {update_master_row(sh, a.title, a.key_h, a.key_r, a.updates)} :
          /\ sh' = r.book
          /\ last' = [op |-> "update", ok |-> r.ok, err |-> r.err,
                      args |-> a, before |-> sh]
    /\ pc' = "called"
    /\ UNCHANGED <<df_master, df_mov, df_stock, sel, sel_entry, row_sel, form,
                   stock_actual, agg, dfm>>

SpecUpdate == InitUpdate /\ [][CallUpdate]_vars

\* C4: when update_master_row fails because no row has the key, the sheet is
\* exactly as before the call: no header cell and no data cell was written.
C4_NotFoundLeavesSheet ==
    (pc = "called" /\ last.err = "No se encontro la fila") => sh = last.before

\* position of the column named c in a header row; 0 when there is none
PosOf(header, c) ==
    IF \E j \in 1..Len(header) : Strip(header[j]) = c
    THEN CHOOSE j \in 1..Len(header) : Strip(header[j]) = c
    ELSE 0

\* the cell of column c in row, "" when the header has no such column
CellOf(header, row, c) == IF PosOf(header, c) = 0 THEN "" ELSE row[PosOf(header, c)]

\* row i of the grid `cells` has the key (Name, Reference), texts stripped
HasKey(cells, i, key_h, key_r) ==
    /\ Strip(CellOf(cells[1], cells[i], "Herramienta")) = Strip(key_h)
    /\ Strip(CellOf(cells[1], cells[i], "Referencia")) = Strip(key_r)

UpdateColumns == {"Marca", "Referencia", "Asignado", "Tipo", "Fecha"}

\* C9: after a successful update the grid has the same data rows; the first
\* row, in sheet order, that had the key holds the update values in the update
\* columns; every cell outside the update columns of that row, every cell of
\* every other data row, and so InitialQuantity of every row, is as before.
C9_OnlyUpdatedColumnsOfFirstMatch ==
    (pc = "called" /\ last.ok) =>
        LET old == last.before[1].cells
            new == sh[1].cells
            a == last.args
            Upd == {a.updates[k][1] : k \in 1..Len(a.updates)}
            first == CHOOSE i \in 2..Len(old) :
                        /\ HasKey(old, i, a.key_h, a.key_r)
                        /\ \A j \in 2..(i - 1) : ~HasKey(old, j, a.key_h, a.key_r)
        IN  /\ Upd \subseteq UpdateColumns
            /\ Len(new) = Len(old)
            /\ \E i \in 2..Len(old) : HasKey(old, i, a.key_h, a.key_r)
            /\ \A j \in 1..Len(old[1]) : new[1][j] = old[1][j]
            /\ \A i \in 2..Len(old) :
                  \A c \in {Strip(new[1][j]) : j \in 1..Len(new[1])} :
                     CellOf(new[1], new[i], c)
                       = IF i = first /\ c \in Upd
                         THEN a.updates[CHOOSE k \in 1..Len(a.updates) :
                                           a.updates[k][1] = c][2]
                         ELSE CellOf(old[1], old[i], c)
            /\ \A i \in 2..Len(old) :
                  CellOf(new[1], new[i], "CantidadInicial")
                    = CellOf(old[1], old[i], "CantidadInicial")

\* a successful update of a sheet with two rows of the key, which changed the
\* first and added the Fecha column
C9_Witness ==
    /\ pc = "called" /\ last.ok
    /\ Len(last.before[1].cells) = 3
    /\ \A i \in 2..3 : HasKey(last.before[1].cells, i, last.args.key_h, last.args.key_r)
    /\ sh[1].cells[2] # last.before[1].cells[2]
    /\ Len(sh[1].cells[1]) > Len(last.before[1].cells[1])

-----------------------------------------------------------------------------
(* Claims about the page, checked under Spec *)

\* the stock view of the store as it is now
FreshStock == compute_stock(get_master_df(sh), get_movements_df(sh))

\* C5: the item of the page is the one whose entry the user chose: the selected
\* row (which feeds the detail form, the stock shown, the saved movement and the
\* master edit) has the triple of the chosen entry.
C5_SelectedIsChosenTriple ==
    (pc = "ok" /\ sel # NoSel) => row_sel = sel_entry

\* the data rows of the ledger sheet; none without a ledger or on a blank one
LedgerData(book) ==
    IF LedgerRows(book) < 2 THEN <<>>
    ELSE Tail(book[worksheet(book, MOV_SHEET)].cells)

IsPrefix(s, t) == Len(s) <= Len(t) /\ SubSeq(t, 1, Len(s)) = s

\* C6: every step keeps the ledger rows there were, in order; a successful
\* save-movement adds exactly one row at the end; no other step changes the
\* ledger rows.
C6_AppendOnly ==
    [][/\ IsPrefix(LedgerData(sh), LedgerData(sh'))
       /\ (last'.op = "save" /\ last'.ok)
             => Len(LedgerData(sh')) = Len(LedgerData(sh)) + 1
       /\ ~(last'.op = "save" /\ last'.ok)
             => LedgerData(sh') = LedgerData(sh)]_vars

\* the part of C6 that holds of every step: the rows there were stay, in order,
\* and only a save-movement adds rows, one at most
C6_RowsKept ==
    [][/\ IsPrefix(LedgerData(sh), LedgerData(sh'))
       /\ Len(LedgerData(sh')) <= Len(LedgerData(sh)) + 1
       /\ LedgerData(sh') # LedgerData(sh) => last'.op = "save"]_vars

\* C7: once a save-movement or a master edit has completed, the stock view the
\* page shows is the one of the store after the write, computed from the same
\* ledger as the movement series shown with it.
C7_ShownStockIsFresh ==
    (pc = "ok" /\ last.op \in {"save", "edit"} /\ last.ok) =>
        /\ df_stock = FreshStock
        /\ agg = Agg(FreshStock)
        /\ df_mov = dfm

\* C10: after a movement (d, q) was saved for the selected item and the ledger
\* took its row, the next read gives the master rows of that item their stock
\* plus q (Entrada) or minus q (Salida), and every other master row the stock
\* it had.  df_stock is the view computed in the run of the save, before the
\* write.
C10_SavedMovementMovesSelectedItem ==
    (/\ pc = "ok" /\ last.op = "save" /\ last.ok
     /\ Len(dfm.rows) = Len(df_mov.rows) + 1
     /\ FreshStock.ok) =>
        /\ Len(FreshStock.rows) = Len(df_stock.rows)
        /\ \A i \in 1..Len(df_stock.rows) :
              FreshStock.rows[i].StockActual
                = df_stock.rows[i].StockActual
                  + (IF SameItem(df_stock.rows[i], row_sel)
                     THEN (IF last.tipo_mov = "Entrada" THEN last.cantidad
                           ELSE 0 - last.cantidad)
                     ELSE 0)

=============================================================================
